---- MODULE Spec2Model ----
(***************************************************************************)
(* Model of rest-mcp-proxy (src/index.js): discovery of the MCP backends'  *)
(* tools into the registry (availableTools), resolution of a request's     *)
(* arguments on the two /tool channels, routing of the invocation to the   *)
(* owning backend, and the export of the registry (/serialize-tools).      *)
(*                                                                         *)
(* Representation.                                                         *)
(*  - A JavaScript string is a sequence of one-character strings, so that  *)
(*    split, indexOf and substring are computed character by character;    *)
(*    the fixed texts of messages and URLs are single elements of it.      *)
(*  - A plain JavaScript object is the sequence of its own enumerable      *)
(*    entries <<key, value>> in insertion order, keys pairwise different.  *)
(*  - A JavaScript Map is the sequence of its entries <<key, value>> in    *)
(*    insertion order.                                                     *)
(***************************************************************************)
EXTENDS Integers, Sequences, FiniteSets, TLC

VARIABLES
    settings,        \* Object.entries(settings.mcpServers): the configured server names, in order
    pc,              \* position of startServer / initializeMCPServers
    idx,             \* index in settings of the server the discovery loop is at
    backendReply,    \* per server, what its connect / listTools answered during discovery
    mcpClients,      \* Map serverName -> client handle
    availableTools,  \* Map toolName -> {serverName, tool}: the registry
    listening,       \* app.listen was called
    now,             \* Date.now()
    req,             \* the /tool requests: one record per request
    reply            \* body of the last response of /tools, /serialize-tools or /health

vars == <<settings, pc, idx, backendReply, mcpClients, availableTools, listening, now, req, reply>>

----------------------------------------------------------------------------
(* Bounds of the model. *)

NumServers == 2     \* configured backends
MaxTools   == 2     \* tools in one backend's listing
MaxReq     == 2     \* /tool requests in one run
MaxTime    == 1     \* clock ticks
MaxPieces  == 5     \* pieces a selector of the exhaustive resolver runs is built from
MaxNameLen == 2     \* characters of a tool name of the export runs

----------------------------------------------------------------------------
(* JavaScript values. *)

Undefined == <<"undefined">>    \* not a string: strings hold one-character elements
Null      == <<"null">>

Str_proto  == <<"_", "_", "p", "r", "o", "t", "o", "_", "_">>
Str_tool   == <<"t", "o", "o", "l">>
Str_apikey == <<"a", "p", "i", "_", "k", "e", "y">>

\* !v for the values a selector or a tool name can take
Falsy(v) == v = Undefined \/ v = Null \/ v = <<>>

\* s.indexOf(c): 0-based, -1 when absent
IndexFrom(s, c, i) ==
    IF \E j \in i..Len(s) : s[j] = c
    THEN (CHOOSE j \in i..Len(s) : s[j] = c /\ \A k \in i..(j - 1) : s[k] # c) - 1
    ELSE -1

IndexOf(s, c) == IndexFrom(s, c, 1)

\* s.substring(a, b) and s.substring(a), 0-based, for 0 <= a <= b <= s.length
Substring(s, a, b) == SubSeq(s, a + 1, b)
SubstringFrom(s, a) == SubSeq(s, a + 1, Len(s))

\* s.split(' '): the pieces between single spaces, empty pieces included
RECURSIVE SplitSpace(_)
SplitSpace(s) ==
    LET spaceIndex == IndexOf(s, " ")
    IN  IF spaceIndex = -1 THEN <<s>>
        ELSE <<Substring(s, 0, spaceIndex)>> \o SplitSpace(SubstringFrom(s, spaceIndex + 1))

----------------------------------------------------------------------------
(* Plain objects and Maps as entry sequences. *)

Keys(o) == {o[i][1] : i \in 1..Len(o)}
Has(o, k) == k \in Keys(o)
Get(o, k) == o[CHOOSE i \in 1..Len(o) : o[i][1] = k][2]
UniqueKeys(o) == \A i, j \in 1..Len(o) : o[i][1] = o[j][1] => i = j

\* CreateDataProperty / Map.prototype.set: the entry of k is replaced in place, or appended
Define(o, k, v) ==
    IF Has(o, k)
    THEN [i \in 1..Len(o) |-> IF o[i][1] = k THEN <<k, v>> ELSE o[i]]
    ELSE Append(o, <<k, v>>)

\* o[k] = v on an object created by {}: the key "__proto__" reaches the accessor
\* of Object.prototype, which sets (or, for a primitive v, ignores) the prototype
\* and creates no own property
Assign(o, k, v) ==
    IF k = Str_proto THEN o ELSE Define(o, k, v)

RECURSIVE DefineAll(_, _)
DefineAll(o, entries) ==
    IF entries = <<>> THEN o
    ELSE DefineAll(Define(o, Head(entries)[1], Head(entries)[2]), Tail(entries))

\* { ...a, ...b }: the own entries of a, then those of b, each defined in turn
Spread(a, b) == DefineAll(DefineAll(<<>>, a), b)

\* const { [k]: _, ...rest } = o
RECURSIVE Without(_, _)
Without(o, k) ==
    IF o = <<>> THEN <<>>
    ELSE IF Head(o)[1] = k THEN Without(Tail(o), k)
    ELSE <<Head(o)>> \o Without(Tail(o), k)

----------------------------------------------------------------------------
(* parseToolAndParams *)

\* for (let i = 1; i < parts.length; i++) { ... }  (i is 1-based here: parts[i] is parts[i-1] of the code)
RECURSIVE ParamsOfTokens(_, _, _)
ParamsOfTokens(parts, i, params) ==
    IF i > Len(parts) THEN params
    ELSE LET paramPart  == parts[i]
             equalIndex == IndexOf(paramPart, "=")
         IN  ParamsOfTokens(parts, i + 1,
                 IF equalIndex > 0
                 THEN Assign(params, Substring(paramPart, 0, equalIndex),
                             SubstringFrom(paramPart, equalIndex + 1))
                 ELSE params)

parseToolAndParams(toolQuery) ==
    IF Falsy(toolQuery)
    THEN [toolName |-> Null, params |-> <<>>]
    ELSE LET parts == SplitSpace(toolQuery)
         IN  [toolName |-> parts[1], params |-> ParamsOfTokens(parts, 2, <<>>)]

----------------------------------------------------------------------------
(* Tool descriptors, as the backends list them. *)

NoType == "undefined"

\* tool.inputSchema: `defined` is false for a tool without inputSchema,
\* `hasProperties` is false for a schema without properties
NoSchema == [defined |-> FALSE, hasProperties |-> FALSE, properties |-> <<>>, required |-> <<>>]

Tool_x0 == [name |-> <<"x">>, description |-> Undefined, inputSchema |-> NoSchema]

Tool_x2 == [name |-> <<"x">>, description |-> <<"d">>,
            inputSchema |-> [defined |-> TRUE, hasProperties |-> TRUE,
                             properties |-> << << <<"a">>, [type |-> "number"] >>,
                                               << <<"b">>, [type |-> NoType] >> >>,
                             required |-> << <<"a">> >>]]

Tool_y0 == [name |-> <<"y">>, description |-> <<>>,
            inputSchema |-> [defined |-> TRUE, hasProperties |-> TRUE,
                             properties |-> <<>>, required |-> <<>>]]

Tool_p1 == [name |-> Str_proto, description |-> Undefined,
            inputSchema |-> [defined |-> TRUE, hasProperties |-> TRUE,
                             properties |-> << << <<"a">>, [type |-> "string"] >> >>,
                             required |-> <<>>]]

Descriptors == {Tool_x0, Tool_x2, Tool_y0}

RECURSIVE SeqsUpTo(_, _)
SeqsUpTo(S, n) ==
    IF n = 0 THEN {<<>>}
    ELSE LET shorter == SeqsUpTo(S, n - 1)
         IN  shorter \cup {Append(q, e) : q \in shorter, e \in S}

\* every listing of at most MaxTools of the descriptors, and two listings with a tool
\* named __proto__
AllListings == SeqsUpTo(Descriptors, MaxTools) \cup {<<Tool_p1>>, <<Tool_p1, Tool_x2>>}

\* the listings of the runs that also serve /tool requests
SomeListings == {<<Tool_x2>>, <<Tool_x0, Tool_y0>>}

----------------------------------------------------------------------------
(* A /tool request: what came in, how far its handler is, what went out. *)

NoTime == -1

NoResponse ==
    [error |-> Undefined, success |-> FALSE, result |-> Undefined,
     tool |-> Undefined, server |-> 0, executionTime |-> NoTime]

NoResult == [settled |-> "no", value |-> Undefined]

IdleReq ==
    [st |-> "idle",            \* idle, awaiting (suspended in await client.callTool), done
     method |-> "-", headerKey |-> Undefined, query |-> <<>>, body |-> <<>>,
     toolName |-> Null, params |-> <<>>, args |-> <<>>,
     invoked |-> FALSE,        \* invokeTool was entered
     serverName |-> 0,         \* toolInfo.serverName of the invocation
     startTime |-> NoTime,
     calls |-> <<>>,           \* the callTool requests sent for this invocation
     logged |-> <<>>,          \* what invokeTool logged for this invocation
     backendResult |-> NoResult,   \* how the backend settled the callTool promise
     status |-> 0, response |-> NoResponse]

----------------------------------------------------------------------------
(* Startup: startServer awaits initializeMCPServers, then listens. *)

Pending == [status |-> "pending", hasTools |-> FALSE, tools |-> <<>>]

Client(serverName) == [backend |-> serverName]

InitStartup ==
    /\ settings \in {[i \in 1..n |-> i] : n \in 0..NumServers}
    /\ pc = "connect"
    /\ idx = 1
    /\ backendReply = [i \in 1..Len(settings) |-> Pending]
    /\ mcpClients = <<>>
    /\ availableTools = <<>>
    /\ listening = FALSE
    /\ now = 0
    /\ req = [r \in 1..MaxReq |-> IdleReq]
    /\ reply = [endpoint |-> "none"]

\* the end of the loop body: the loop goes on with the next server
NextServer ==
    /\ idx' = idx + 1
    /\ pc' = "connect"

\* A failure that leaves the loop.
CatchAndAbort ==
    /\ idx' = Len(settings) + 1
    /\ pc' = "connect"

\* catch (error) { logError(...) }: the loop goes on with the next server
CatchAndContinue == NextServer

\* A connect that does not store the client.
ConnectOkUnstored ==
    /\ pc = "connect" /\ idx <= Len(settings)
    /\ backendReply' = [backendReply EXCEPT ![idx].status = "connected"]
    /\ pc' = "listTools"
    /\ UNCHANGED <<settings, idx, mcpClients, availableTools, listening, now, req, reply>>

\* await client.connect(transport) resolved; mcpClients.set(serverName, client)
ConnectOk ==
    /\ pc = "connect" /\ idx <= Len(settings)
    /\ mcpClients' = Define(mcpClients, settings[idx], Client(settings[idx]))
    /\ backendReply' = [backendReply EXCEPT ![idx].status = "connected"]
    /\ pc' = "listTools"
    /\ UNCHANGED <<settings, idx, availableTools, listening, now, req, reply>>

\* new StdioClientTransport or client.connect threw: caught, logged, next server
ConnectFails ==
    /\ pc = "connect" /\ idx <= Len(settings)
    /\ backendReply' = [backendReply EXCEPT ![idx].status = "connectFailed"]
    /\ CatchAndContinue
    /\ UNCHANGED <<settings, mcpClients, availableTools, listening, now, req, reply>>

\* A registration that keeps the first backend of a name.
RegisterFirst(registry, serverName, tool) ==
    IF Has(registry, tool.name) THEN registry
    ELSE Define(registry, tool.name, [serverName |-> serverName, tool |-> tool])

\* availableTools.set(tool.name, { serverName, tool })
Register(registry, serverName, tool) ==
    Define(registry, tool.name, [serverName |-> serverName, tool |-> tool])

\* toolsResponse.tools.forEach(tool => availableTools.set(...))
RECURSIVE RegisterAll(_, _, _)
RegisterAll(registry, serverName, tools) ==
    IF tools = <<>> THEN registry
    ELSE RegisterAll(Register(registry, serverName, Head(tools)), serverName, Tail(tools))

\* await client.listTools() resolved with a tools array: every tool is registered
ListToolsOk(Listings) ==
    /\ pc = "listTools"
    /\ \E tools \in Listings :
        /\ availableTools' = RegisterAll(availableTools, settings[idx], tools)
        /\ backendReply' = [backendReply EXCEPT
                              ![idx] = [status |-> "listed", hasTools |-> TRUE, tools |-> tools]]
    /\ NextServer
    /\ UNCHANGED <<settings, mcpClients, listening, now, req, reply>>

\* await client.listTools() resolved without a tools member: nothing is registered
ListToolsEmpty ==
    /\ pc = "listTools"
    /\ backendReply' = [backendReply EXCEPT
                          ![idx] = [status |-> "listed", hasTools |-> FALSE, tools |-> <<>>]]
    /\ NextServer
    /\ UNCHANGED <<settings, mcpClients, availableTools, listening, now, req, reply>>

\* await client.listTools() rejected: caught, logged, next server; the client stays in mcpClients
ListToolsFails ==
    /\ pc = "listTools"
    /\ backendReply' = [backendReply EXCEPT ![idx].status = "listFailed"]
    /\ CatchAndContinue
    /\ UNCHANGED <<settings, mcpClients, availableTools, listening, now, req, reply>>

\* A server that listens without waiting for the discovery loop.
ListenEarly ==
    /\ ~listening /\ pc # "serving"
    /\ listening' = TRUE
    /\ UNCHANGED <<settings, pc, idx, backendReply, mcpClients, availableTools, now, req, reply>>

\* the loop is over: printAvailableTools(), return; then app.listen(port, ...)
Listen ==
    /\ pc = "connect" /\ idx > Len(settings)
    /\ pc' = "serving"
    /\ listening' = TRUE
    /\ UNCHANGED <<settings, idx, backendReply, mcpClients, availableTools, now, req, reply>>

\* Date.now() advances
Tick ==
    /\ now < MaxTime
    /\ now' = now + 1
    /\ UNCHANGED <<settings, pc, idx, backendReply, mcpClients, availableTools, listening, req, reply>>

----------------------------------------------------------------------------
(* The /tool handlers and invokeTool. *)

apiKey == <<"K">>

\* authenticateApiKey calls next()
Authenticated(in) ==
    LET fromQuery   == IF Has(in.query, Str_apikey) THEN Get(in.query, Str_apikey) ELSE Undefined
        providedKey == IF Falsy(in.headerKey) THEN fromQuery ELSE in.headerKey
    IN  ~Falsy(providedKey) /\ providedKey = apiKey

\* req.query.tool
QueryTool(query) == IF Has(query, Str_tool) THEN Get(query, Str_tool) ELSE Undefined

NoInfo == [serverName |-> 0, tool |-> Tool_x0]

\* A lookup that falls back to the first registered tool.
LookupAny(toolName) ==
    IF Has(availableTools, toolName)
    THEN [found |-> TRUE, info |-> Get(availableTools, toolName)]
    ELSE IF availableTools # <<>>
    THEN [found |-> TRUE, info |-> availableTools[1][2]]
    ELSE [found |-> FALSE, info |-> NoInfo]

\* const toolInfo = availableTools.get(toolName); found is !!toolInfo
Lookup(toolName) ==
    IF Has(availableTools, toolName)
    THEN [found |-> TRUE, info |-> Get(availableTools, toolName)]
    ELSE [found |-> FALSE, info |-> NoInfo]

\* const client = mcpClients.get(toolInfo.serverName); found is !!client
ClientOf(toolInfo) ==
    IF Has(mcpClients, toolInfo.serverName)
    THEN [found |-> TRUE, client |-> Get(mcpClients, toolInfo.serverName)]
    ELSE [found |-> FALSE, client |-> Client(0)]

\* Arguments filtered by the tool's declared inputs.
DeclaredArgumentsOnly(toolInfo, toolName, args) ==
    [name |-> toolName,
     arguments |-> SelectSeq(args, LAMBDA e : Has(toolInfo.tool.inputSchema.properties, e[1]))]

\* the request of client.callTool({ name: toolName, arguments: args })
CallToolRequest(toolInfo, toolName, args) ==
    [name |-> toolName, arguments |-> args]

LogEntry(level, text, ms) == [level |-> level, text |-> text, ms |-> ms]

ErrorResponse(message) == [NoResponse EXCEPT !.error = message]

\* invokeTool(toolName, args) up to its first suspension, inside the handler's
\* try/catch: a throw before the call becomes the handler's 500 response
InvokeStart(r0, toolName, args) ==
    LET entered == [r0 EXCEPT !.invoked = TRUE, !.startTime = now]
        look    == Lookup(toolName)
        cl      == ClientOf(look.info)
    IN  IF ~look.found
        THEN [entered EXCEPT
                !.st = "done", !.status = 500,
                !.logged = <<LogEntry("error", <<"Tool not found: ">> \o toolName, NoTime)>>,
                !.response = ErrorResponse(<<"Tool '">> \o toolName \o <<"' not found">>)]
        ELSE IF ~cl.found
        THEN [entered EXCEPT
                !.st = "done", !.status = 500,
                !.logged = <<LogEntry("error",
                               <<"MCP server not connected: ", ToString(look.info.serverName)>>, NoTime)>>,
                !.response = ErrorResponse(<<"MCP server '", ToString(look.info.serverName),
                                             "' not connected">>)]
        ELSE [entered EXCEPT
                !.st = "awaiting", !.serverName = look.info.serverName,
                !.logged = <<LogEntry("info", <<"Executing tool: ">> \o toolName, NoTime)>>,
                !.calls = Append(@, [client |-> cl.client,
                                     request |-> CallToolRequest(look.info, toolName, args)])]

\* A handler without the tool name check.
DispatchUnchecked(r0, toolName, args) == InvokeStart([r0 EXCEPT !.args = args], toolName, args)

\* if (!toolName) return res.status(400)...; try { await invokeTool(toolName, args) } ...
Dispatch(r0, toolName, args) ==
    IF Falsy(toolName)
    THEN [r0 EXCEPT !.st = "done", !.status = 400,
                    !.response = ErrorResponse(<<"Tool name is required as query parameter">>)]
    ELSE InvokeStart([r0 EXCEPT !.args = args], toolName, args)

\* Channel A with the selector's parameters winning.
GetArgsSelectorWins(params, additionalArgs) == Spread(additionalArgs, params)

\* const args = { ...params, ...additionalArgs }
GetArgs(params, additionalArgs) == Spread(params, additionalArgs)

\* Channel B with the payload winning.
PostArgsBodyWins(body, params) == Spread(params, body)

\* const args = { ...req.body, ...params }
PostArgs(body, params) == Spread(body, params)

Received(in) ==
    [IdleReq EXCEPT !.method = in.method, !.headerKey = in.headerKey,
                    !.query = in.query, !.body = in.body]

\* app.get('/tool', authenticateApiKey, ...) up to the response or the suspension
HandleGet(in) ==
    LET toolQuery      == QueryTool(in.query)
        additionalArgs == Without(in.query, Str_tool)
        parsed         == parseToolAndParams(toolQuery)
        r0 == [Received(in) EXCEPT !.toolName = parsed.toolName, !.params = parsed.params]
    IN  Dispatch(r0, parsed.toolName, GetArgs(parsed.params, additionalArgs))

\* app.post('/tool', authenticateApiKey, ...) up to the response or the suspension
HandlePost(in) ==
    LET toolQuery == QueryTool(in.query)
        parsed    == parseToolAndParams(toolQuery)
        r0 == [Received(in) EXCEPT !.toolName = parsed.toolName, !.params = parsed.params]
    IN  Dispatch(r0, parsed.toolName, PostArgs(in.body, parsed.params))

Frame == UNCHANGED <<settings, pc, idx, backendReply, mcpClients, availableTools, listening, now, reply>>

\* A server that takes a request only while no invocation is suspended.
AcceptingWhenQuiet(r) ==
    /\ listening /\ req[r].st = "idle"
    /\ \A q \in 1..MaxReq : req[q].st # "awaiting"

\* the server accepts connections and the slot r holds no request
Accepting(r) == listening /\ req[r].st = "idle"

\* GET /tool with the request `in`
GetToolOn(r, in) ==
    /\ in.method = "GET" /\ Authenticated(in)
    /\ req' = [req EXCEPT ![r] = HandleGet(in)]
    /\ Frame

\* POST /tool with the request `in`
PostToolOn(r, in) ==
    /\ in.method = "POST" /\ Authenticated(in)
    /\ req' = [req EXCEPT ![r] = HandlePost(in)]
    /\ Frame

\* authenticateApiKey answers 401 to the request `in` and the handler is not run
UnauthorizedOn(r, in) ==
    /\ ~Authenticated(in)
    /\ req' = [req EXCEPT ![r] = [Received(in) EXCEPT
                    !.st = "done", !.status = 401,
                    !.response = ErrorResponse(<<"Invalid or missing API key">>)]]
    /\ Frame

GetTool(r, Inputs) == Accepting(r) /\ \E in \in Inputs : GetToolOn(r, in)

PostTool(r, Inputs) == Accepting(r) /\ \E in \in Inputs : PostToolOn(r, in)

Unauthorized(r, Inputs) == Accepting(r) /\ \E in \in Inputs : UnauthorizedOn(r, in)

Contents == {<<"c1">>, <<"c2">>}
BackendErrors == {<<"e1">>, <<"e2">>}

\* A failure that reports no elapsed time.
FailedSilently(r0, message) ==
    [r0 EXCEPT
        !.st = "done", !.status = 500,
        !.response = ErrorResponse(<<"Tool execution failed: ">> \o message)]

\* A failure that sends the callTool request again.
FailedRetrying(r0, message) ==
    [r0 EXCEPT
        !.st = "awaiting",
        !.logged = Append(@, LogEntry("error",
                              <<"Tool execution failed: ">> \o r0.toolName
                                  \o <<"Error after ", "ms: ">> \o message,
                              now - r0.startTime)),
        !.calls = Append(@, @[1])]

\* the catch block of invokeTool, then the catch block of the handler
Failed(r0, message) ==
    [r0 EXCEPT
        !.st = "done", !.status = 500,
        !.logged = Append(@, LogEntry("error",
                              <<"Tool execution failed: ">> \o r0.toolName
                                  \o <<"Error after ", "ms: ">> \o message,
                              now - r0.startTime)),
        !.response = ErrorResponse(<<"Tool execution failed: ">> \o message)]

\* the return of invokeTool, then res.json(result)
Succeeded(r0, content) ==
    [r0 EXCEPT
        !.st = "done", !.status = 200,
        !.logged = Append(@, LogEntry("success",
                              <<"Tool executed successfully: ">> \o r0.toolName,
                              now - r0.startTime)),
        !.response = [error |-> Undefined, success |-> TRUE, result |-> content,
                      tool |-> r0.toolName,
                      server |-> r0.serverName,
                      executionTime |-> now - r0.startTime]]

\* await client.callTool(...) resolved
CallToolReturns(r) ==
    /\ req[r].st = "awaiting"
    /\ \E content \in Contents :
        req' = [req EXCEPT ![r] = Succeeded([req[r] EXCEPT !.backendResult =
                                      [settled |-> "resolved", value |-> content]], content)]
    /\ Frame

\* A rejected call that also drops the backend's client.
CallToolFailsEvicting(r) ==
    /\ req[r].st = "awaiting"
    /\ \E message \in BackendErrors :
        req' = [req EXCEPT ![r] = Failed([req[r] EXCEPT !.backendResult =
                                      [settled |-> "rejected", value |-> message]], message)]
    /\ mcpClients' = Without(mcpClients, req[r].serverName)
    /\ UNCHANGED <<settings, pc, idx, backendReply, availableTools, listening, now, reply>>

\* await client.callTool(...) rejected
CallToolFails(r) ==
    /\ req[r].st = "awaiting"
    /\ \E message \in BackendErrors :
        req' = [req EXCEPT ![r] = Failed([req[r] EXCEPT !.backendResult =
                                      [settled |-> "rejected", value |-> message]], message)]
    /\ Frame

----------------------------------------------------------------------------
(* /tools, /serialize-tools and /health, for requests that pass authenticateApiKey. *)

\* Array.from(availableTools.entries()).map(([name, info]) => ({...}))
ToolsBody ==
    [i \in 1..Len(availableTools) |->
        [name |-> availableTools[i][1],
         server |-> availableTools[i][2].serverName,
         description |-> availableTools[i][2].tool.description,
         inputSchema |-> availableTools[i][2].tool.inputSchema]]

ListTools ==
    /\ listening
    /\ reply' = [endpoint |-> "/tools", body |-> ToolsBody]
    /\ UNCHANGED <<settings, pc, idx, backendReply, mcpClients, availableTools, listening, now, req>>

Health ==
    /\ listening
    /\ reply' = [endpoint |-> "/health",
                 body |-> [status |-> "ok",
                           connectedServers |-> [i \in 1..Len(mcpClients) |-> mcpClients[i][1]],
                           availableTools |-> [i \in 1..Len(availableTools) |-> availableTools[i][1]]]]
    /\ UNCHANGED <<settings, pc, idx, backendReply, mcpClients, availableTools, listening, now, req>>

----------------------------------------------------------------------------
(* /serialize-tools *)

Lower  == <<"a", "b", "c", "d", "e", "f", "g", "h", "i", "j", "k", "l", "m",
            "n", "o", "p", "q", "r", "s", "t", "u", "v", "w", "x", "y", "z">>
Digits == <<"0", "1", "2", "3", "4", "5", "6", "7", "8", "9">>
HexLower == Digits \o <<"a", "b", "c", "d", "e", "f">>
HexUpper == Digits \o <<"A", "B", "C", "D", "E", "F">>

PositionIn(alphabet, c) == CHOOSE i \in 1..Len(alphabet) : alphabet[i] = c
IsIn(alphabet, c) == \E i \in 1..Len(alphabet) : alphabet[i] = c

\* str.charCodeAt(i) for the characters of the model
CharCode(c) ==
    IF IsIn(Lower, c) THEN 96 + PositionIn(Lower, c)
    ELSE IF IsIn(Digits, c) THEN 47 + PositionIn(Digits, c)
    ELSE CASE c = "_"  -> 95
           [] c = "="  -> 61
           [] c = " "  -> 32
           [] c = "{"  -> 123
           [] c = "}"  -> 125
           [] c = "\"" -> 34
           [] c = "\\" -> 92
           [] OTHER    -> 63

\* A 32-bit integer is the pair of the 16-bit halves of its two's complement pattern.
Half == 65536
Zero32 == [hi |-> 0, lo |-> 0]

\* hash << 5
Shl5(h) ==
    LET lo32 == h.lo * 32
    IN  [hi |-> (h.hi * 32 + lo32 \div Half) % Half, lo |-> lo32 % Half]

\* ((hash << 5) - hash) + char, then hash & hash: the sum wrapped to 32 bits
HashStep(h, char) ==
    LET s == Shl5(h)
        t == s.lo - h.lo + char + Half
    IN  [hi |-> (s.hi - h.hi + (t \div Half) - 1 + 2 * Half) % Half, lo |-> t % Half]

IsNegative32(h) == h.hi >= Half \div 2

\* The hash taken as it is.
SameAs32(h) == h

\* Math.abs(hash): the magnitude, at most 2^31
Abs32(h) ==
    IF IsNegative32(h)
    THEN [hi |-> (Half - 1 - h.hi + (IF h.lo = 0 THEN 1 ELSE 0)) % Half, lo |-> (Half - h.lo) % Half]
    ELSE h

RECURSIVE HashFrom(_, _, _)
HashFrom(str, i, hash) ==
    IF i > Len(str) THEN hash
    ELSE HashFrom(str, i + 1, HashStep(hash, CharCode(str[i])))

Hex4(n) == << HexLower[((n \div 4096) % 16) + 1], HexLower[((n \div 256) % 16) + 1],
              HexLower[((n \div 16) % 16) + 1], HexLower[(n % 16) + 1] >>

RECURSIVE StripZeros(_)
StripZeros(digits) ==
    IF Len(digits) > 1 /\ Head(digits) = "0" THEN StripZeros(Tail(digits)) ELSE digits

\* n.toString(16) for 0 <= n <= 2^32 - 1
ToString16(h) == StripZeros(Hex4(h.hi) \o Hex4(h.lo))

\* s.padStart(n, '0')
RECURSIVE PadStart(_, _)
PadStart(str, n) == IF Len(str) >= n THEN str ELSE PadStart(<<"0">> \o str, n)

IdWidth == 12

generateId(str) == PadStart(ToString16(Abs32(HashFrom(str, 1, Zero32))), IdWidth)

Str_result == <<"_", "r", "e", "s", "u", "l", "t">>

Unreserved(c) == IsIn(Lower, c) \/ IsIn(Digits, c) \/ c \in {"-", "_", ".", "!", "~", "*", "'", "(", ")"}

\* encodeURIComponent(s) for the (ASCII) characters of the model
RECURSIVE encodeURIComponent(_)
encodeURIComponent(str) ==
    IF str = <<>> THEN <<>>
    ELSE LET c == Head(str)
             code == CharCode(c)
         IN  (IF Unreserved(c) THEN <<c>>
              ELSE <<"%", HexUpper[(code \div 16) + 1], HexUpper[(code % 16) + 1]>>)
             \o encodeURIComponent(Tail(str))

\* the characters of a JSON string literal
RECURSIVE JsonEscape(_)
JsonEscape(str) ==
    IF str = <<>> THEN <<>>
    ELSE (IF Head(str) \in {"\"", "\\"} THEN <<"\\", Head(str)>> ELSE <<Head(str)>>)
         \o JsonEscape(Tail(str))

JsonQuote(str) == <<"\"">> \o JsonEscape(str) \o <<"\"">>

RECURSIVE JsonMembers(_)
JsonMembers(obj) ==
    IF obj = <<>> THEN <<>>
    ELSE JsonQuote(Head(obj)[1]) \o <<":">> \o JsonQuote(Head(obj)[2])
         \o (IF Len(obj) > 1 THEN <<",">> ELSE <<>>) \o JsonMembers(Tail(obj))

\* JSON.stringify(obj) for an object whose values are strings
JsonStringify(obj) == <<"{">> \o JsonMembers(obj) \o <<"}">>

\* Object.fromEntries(entries)
ObjectFromEntries(entries) == DefineAll(<<>>, entries)

\* `{{${input.name}}}`
Placeholder(name) == <<"{", "{">> \o name \o <<"}", "}">>

\* value || fallback for a string value
OrElse(value, fallback) == IF Falsy(value) THEN fallback ELSE value

\* the inputs array: one entry per property of tool.inputSchema.properties
InputsOf(tool) ==
    IF tool.inputSchema.defined /\ tool.inputSchema.hasProperties
    THEN [i \in 1..Len(tool.inputSchema.properties) |->
            [name |-> tool.inputSchema.properties[i][1],
             type |-> IF tool.inputSchema.properties[i][2].type = NoType
                      THEN "string" ELSE tool.inputSchema.properties[i][2].type]]
    ELSE <<>>

\* method: inputs.length > 0 ? "POST" : "GET"
MethodOf(inputs) == IF Len(inputs) > 0 THEN "POST" ELSE "GET"

\* request_body: inputs.length > 0 ? JSON.stringify(Object.fromEntries(...)) : ""
RequestBodyOf(inputs) ==
    IF Len(inputs) > 0
    THEN JsonStringify(ObjectFromEntries([i \in 1..Len(inputs) |->
                                            <<inputs[i].name, Placeholder(inputs[i].name)>>]))
    ELSE <<>>

\* serializedTools[toolName] = {...} for one registry entry
ExportRecord(toolName, toolInfo) ==
    LET tool   == toolInfo.tool
        inputs == InputsOf(tool)
    IN  [name |-> OrElse(tool.description, toolName),
         description |-> OrElse(tool.description,
                                <<"Execute ">> \o toolName \o <<" tool from ">>
                                    \o <<ToString(toolInfo.serverName)>> \o <<" MCP server">>),
         url |-> <<"http", "://", "host", "/tool?tool=">> \o encodeURIComponent(toolName),
         headers |-> <<[name |-> "x-api-key", value |-> "{{API_KEY}}"]>>,
         inputs |-> inputs,
         outputs |-> <<[name |-> "Result", key |-> "result",
                        id |-> generateId(toolName \o Str_result)]>>,
         request_body |-> RequestBodyOf(inputs),
         content_type |-> "json",
         method |-> MethodOf(inputs)]

\* for (const [toolName, toolInfo] of availableTools) { ...; serializedTools[toolName] = {...} }
RECURSIVE SerializeFrom(_, _)
SerializeFrom(i, serializedTools) ==
    IF i > Len(availableTools) THEN serializedTools
    ELSE SerializeFrom(i + 1, Assign(serializedTools, availableTools[i][1],
                                     ExportRecord(availableTools[i][1], availableTools[i][2])))

\* res.json(serializedTools): the own enumerable entries
SerializeTools ==
    /\ listening
    /\ reply' = [endpoint |-> "/serialize-tools", body |-> SerializeFrom(1, <<>>)]
    /\ UNCHANGED <<settings, pc, idx, backendReply, mcpClients, availableTools, listening, now, req>>

----------------------------------------------------------------------------
(* Request inputs. *)

Entry(k, v) == <<k, v>>

\* req.query with the selector under "tool" (absent for Undefined), then the other parameters
Query(selector, others) ==
    (IF selector = Undefined THEN <<>> ELSE <<Entry(Str_tool, selector)>>) \o others

Request(method, headerKey, query, body) ==
    [method |-> method, headerKey |-> headerKey, query |-> query, body |-> body]

RECURSIVE Flatten(_)
Flatten(pieces) == IF pieces = <<>> THEN <<>> ELSE Head(pieces) \o Flatten(Tail(pieces))

Pieces == { <<"x">>, <<"a">>, <<"=">>, <<" ">>, Str_proto }

\* every selector built from at most MaxPieces pieces, and the absent selector
AllSelectors == {Flatten(q) : q \in SeqsUpTo(Pieces, MaxPieces)} \cup {Undefined}

\* the parameters that accompany a selector: additional query parameters or the payload
Extras == { <<>>,
            <<Entry(<<"a">>, <<"2">>), Entry(<<"b">>, <<"3">>)>>,
            <<Entry(<<"a">>, <<"1">>), Entry(<<"c">>, <<"4">>)>> }

KeyInQuery == <<Entry(Str_apikey, apiKey)>>
WrongKeyInQuery == <<Entry(Str_apikey, <<"W">>)>>
ProtoPayload == <<Entry(Str_proto, <<"1">>), Entry(<<"a">>, <<"2">>)>>

\* GET /tool with every selector: with each of Extras as additional parameters, and
\* with the API key sent in the query instead of the header
GetToolAll(r) ==
    Accepting(r) /\ \E sel \in AllSelectors, others \in Extras \cup {KeyInQuery}, headerKey \in {apiKey, Undefined} :
        GetToolOn(r, Request("GET", headerKey, Query(sel, others), <<>>))

\* POST /tool with every selector: with each of Extras as payload, and with a payload
\* that has an own __proto__ member
PostToolAll(r) ==
    Accepting(r) /\ \E sel \in AllSelectors, body \in Extras \cup {ProtoPayload} :
        PostToolOn(r, Request("POST", apiKey, Query(sel, <<>>), body))

\* /tool with every selector and no or a wrong API key
UnauthorizedAll(r) ==
    Accepting(r) /\ \E sel \in AllSelectors, others \in {<<>>, WrongKeyInQuery} :
        UnauthorizedOn(r, Request("GET", Undefined, Query(sel, others), <<>>))

\* the requests of the runs of the whole program
SomeRequests ==
    { Request("GET", apiKey, Query(Undefined, <<>>), <<>>),
      Request("POST", apiKey, Query(<<" ", "x">>, <<>>), <<>>),
      Request("GET", apiKey, Query(<<"z">>, <<>>), <<>>),
      Request("GET", apiKey, Query(<<"x", " ", "a", "=", "1", " ", "b">>,
                                   <<Entry(<<"a">>, <<"2">>), Entry(<<"b">>, <<"3">>)>>), <<>>),
      Request("POST", apiKey, Query(<<"x", " ", "b", "=", "1">>, <<>>),
                              <<Entry(<<"b">>, <<"2">>), Entry(<<"c">>, <<"4">>)>>),
      Request("POST", apiKey, Query(<<"y">>, <<>>), <<>>),
      Request("GET", apiKey, Query(<<"x">>, <<>>), <<>>),
      Request("GET", Undefined, Query(<<"x">>, <<>>), <<>>) }

----------------------------------------------------------------------------
(* Specifications. *)

Init == InitStartup

Discovery(Listings) ==
    \/ ConnectOk
    \/ ConnectFails
    \/ ListToolsOk(Listings)
    \/ ListToolsEmpty
    \/ ListToolsFails
    \/ Listen

Reads ==
    \/ ListTools
    \/ SerializeTools
    \/ Health

Invocations(Inputs) ==
    \E r \in 1..MaxReq :
        \/ GetTool(r, Inputs)
        \/ PostTool(r, Inputs)
        \/ Unauthorized(r, Inputs)
        \/ CallToolReturns(r)
        \/ CallToolFails(r)

\* The whole program: startup, then requests of every kind.
Next ==
    \/ Discovery(SomeListings)
    \/ Reads
    \/ Invocations(SomeRequests)
    \/ Tick

Spec == Init /\ [][Next]_vars

\* The whole program serving a single /tool request.
NextSingle ==
    \/ Discovery(SomeListings)
    \/ Reads
    \/ GetTool(1, SomeRequests)
    \/ PostTool(1, SomeRequests)
    \/ Unauthorized(1, SomeRequests)
    \/ CallToolReturns(1)
    \/ CallToolFails(1)
    \/ Tick

SpecSingle == Init /\ [][NextSingle]_vars

\* Startup with every listing the bounds allow, and the endpoints that read the registry.
NextRegistry ==
    \/ Discovery(AllListings)
    \/ Reads

SpecRegistry == Init /\ [][NextRegistry]_vars

\* One /tool request with every selector the bounds allow, against a server that
\* discovered one backend listing the tool x.
InitResolve ==
    /\ settings = <<1>>
    /\ pc = "serving"
    /\ idx = 2
    /\ backendReply = <<[status |-> "listed", hasTools |-> TRUE, tools |-> <<Tool_x2>>]>>
    /\ mcpClients = Define(<<>>, 1, Client(1))
    /\ availableTools = RegisterAll(<<>>, 1, <<Tool_x2>>)
    /\ listening = TRUE
    /\ now = 0
    /\ req = [r \in 1..MaxReq |-> IdleReq]
    /\ reply = [endpoint |-> "none"]

NextResolve ==
    \/ GetToolAll(1)
    \/ PostToolAll(1)
    \/ UnauthorizedAll(1)
    \/ CallToolReturns(1)
    \/ CallToolFails(1)

SpecResolve == InitResolve /\ [][NextResolve]_vars

\* The export of a registry that holds one tool, with every name of at most MaxNameLen
\* characters, listed with or without an input schema by any one of the configured
\* backends; the other backends connected and listed no tools.
NameChars == {"x", "y", "_", "0", " "}

ToolNames == SeqsUpTo(NameChars, MaxNameLen)

ToolNamed(name, withInputs) ==
    [name |-> name,
     description |-> IF withInputs THEN <<"d">> ELSE Undefined,
     inputSchema |-> IF withInputs THEN Tool_x2.inputSchema ELSE NoSchema]

InitExport ==
    /\ settings = [i \in 1..NumServers |-> i]
    /\ pc = "serving"
    /\ idx = NumServers + 1
    /\ \E name \in ToolNames, withInputs \in BOOLEAN, owner \in 1..NumServers :
         /\ backendReply = [i \in 1..NumServers |->
                              IF i = owner
                              THEN [status |-> "listed", hasTools |-> TRUE,
                                    tools |-> <<ToolNamed(name, withInputs)>>]
                              ELSE [status |-> "listed", hasTools |-> FALSE, tools |-> <<>>]]
         /\ availableTools = RegisterAll(<<>>, owner, <<ToolNamed(name, withInputs)>>)
    /\ mcpClients = [i \in 1..NumServers |-> <<i, Client(i)>>]
    /\ listening = TRUE
    /\ now = 0
    /\ req = [r \in 1..MaxReq |-> IdleReq]
    /\ reply = [endpoint |-> "none"]

SpecExport == InitExport /\ [][Reads]_vars

\* Requests in flight together, against a server whose discovery found the tool y on
\* every backend but the last, and the tool x on every backend.
RECURSIVE RegistryAfter(_, _)
RegistryAfter(replies, i) ==
    IF i = 0 THEN <<>>
    ELSE RegisterAll(RegistryAfter(replies, i - 1), i, replies[i].tools)

InitConcurrent ==
    /\ settings = [i \in 1..NumServers |-> i]
    /\ pc = "serving"
    /\ idx = NumServers + 1
    /\ backendReply = [i \in 1..NumServers |->
                         [status |-> "listed", hasTools |-> TRUE,
                          tools |-> IF i = NumServers THEN <<Tool_x2>> ELSE <<Tool_x0, Tool_y0>>]]
    /\ mcpClients = [i \in 1..NumServers |-> <<i, Client(i)>>]
    /\ availableTools = RegistryAfter(backendReply, NumServers)
    /\ listening = TRUE
    /\ now = 0
    /\ req = [r \in 1..MaxReq |-> IdleReq]
    /\ reply = [endpoint |-> "none"]

NextConcurrent ==
    \/ Invocations(SomeRequests)
    \/ Tick

SpecConcurrent == InitConcurrent /\ [][NextConcurrent]_vars

----------------------------------------------------------------------------
(* Properties. *)

Handled(q) == q.st # "idle" /\ q.status # 401

NotFoundMessage(toolName) == <<"Tool '">> \o toolName \o <<"' not found">>

\* C1: an invocation of a tool name that is not a key of the registry ends with the
\* 'tool not found' error and sends no callTool request to any backend.
C1_UnknownToolFails ==
    \A r \in 1..MaxReq :
        (req[r].invoked /\ ~Has(availableTools, req[r].toolName)) =>
            /\ req[r].st = "done"
            /\ req[r].status = 500
            /\ req[r].response.error = NotFoundMessage(req[r].toolName)
            /\ req[r].response.success = FALSE
            /\ req[r].calls = <<>>

C1_Witness ==
    \E r \in 1..MaxReq :
        /\ req[r].invoked /\ ~Has(availableTools, req[r].toolName)
        /\ availableTools # <<>> /\ Len(mcpClients) = 2

AdditionalOf(q) == {q.query[i] : i \in {j \in 1..Len(q.query) : q.query[j][1] # Str_tool}}

EntriesOf(o) == {o[i] : i \in 1..Len(o)}

\* args is base overridden by over: every entry of over, the entries of base whose
\* key over lacks, and nothing else
Overrides(args, base, over) ==
    /\ UniqueKeys(args)
    /\ EntriesOf(args) = over \cup {e \in base : \A f \in over : f[1] # e[1]}

\* C3: on GET /tool the resolved arguments are the inline parameters of the selector
\* overridden by the additional query parameters.
C3_GetAdditionalWins ==
    \A r \in 1..MaxReq :
        (Handled(req[r]) /\ req[r].method = "GET" /\ req[r].invoked) =>
            Overrides(req[r].args, EntriesOf(req[r].params), AdditionalOf(req[r]))

\* inline {a: x} with additional {a: 2, b: 3} resolves to exactly {a: 2, b: 3}
C3_Witness ==
    \E r \in 1..MaxReq :
        /\ req[r].method = "GET" /\ req[r].invoked
        /\ req[r].params = <<Entry(<<"a">>, <<"x">>)>>
        /\ AdditionalOf(req[r]) = {Entry(<<"a">>, <<"2">>), Entry(<<"b">>, <<"3">>)}
        /\ EntriesOf(req[r].args) = {Entry(<<"a">>, <<"2">>), Entry(<<"b">>, <<"3">>)}

\* C4: on POST /tool the resolved arguments are the payload overridden by the inline
\* parameters of the selector.
C4_PostSelectorWins ==
    \A r \in 1..MaxReq :
        (Handled(req[r]) /\ req[r].method = "POST" /\ req[r].invoked) =>
            Overrides(req[r].args, EntriesOf(req[r].body), EntriesOf(req[r].params))

\* payload {a: 1, c: 4} with inline {a: x} resolves to exactly {a: x, c: 4}
C4_Witness ==
    \E r \in 1..MaxReq :
        /\ req[r].method = "POST" /\ req[r].invoked
        /\ req[r].params = <<Entry(<<"a">>, <<"x">>)>>
        /\ EntriesOf(req[r].body) = {Entry(<<"a">>, <<"1">>), Entry(<<"c">>, <<"4">>)}
        /\ EntriesOf(req[r].args) = {Entry(<<"a">>, <<"x">>), Entry(<<"c">>, <<"4">>)}

\* The tokens of a selector, by the positions of its spaces.
SpacesOf(str) == {i \in 1..Len(str) : str[i] = " "}

\* the position of the j-th space; 0 before the first and Len + 1 after the last
NthSpace(str, j) ==
    IF j = 0 THEN 0
    ELSE IF j > Cardinality(SpacesOf(str)) THEN Len(str) + 1
    ELSE CHOOSE i \in SpacesOf(str) : Cardinality({k \in SpacesOf(str) : k <= i}) = j

TokenCount(str) == Cardinality(SpacesOf(str)) + 1
TokenAt(str, j) == SubSeq(str, NthSpace(str, j - 1) + 1, NthSpace(str, j) - 1)

\* a token is a pair when it holds '=' and does not start with it
IsPair(token) == (\E i \in 1..Len(token) : token[i] = "=") /\ token[1] # "="
FirstEqual(token) == CHOOSE i \in 1..Len(token) : token[i] = "=" /\ \A k \in 1..(i - 1) : token[k] # "="
PairKey(token) == SubSeq(token, 1, FirstEqual(token) - 1)
PairValue(token) == SubSeq(token, FirstEqual(token) + 1, Len(token))

\* the later tokens of the selector that are pairs with key k
PairTokens(str, k) == {j \in 2..TokenCount(str) : IsPair(TokenAt(str, j)) /\ PairKey(TokenAt(str, j)) = k}
PairKeys(str) == {PairKey(TokenAt(str, j)) : j \in {i \in 2..TokenCount(str) : IsPair(TokenAt(str, i))}}

\* params holds exactly the pairs of the later tokens whose key is not in `except`
\* (of two pairs with one key, the later)
ParamsAreThePairs(params, str, except) ==
    /\ UniqueKeys(params)
    /\ Keys(params) = PairKeys(str) \ except
    /\ \A k \in Keys(params) :
         LET last == CHOOSE j \in PairTokens(str, k) : \A i \in PairTokens(str, k) : i <= j
         IN  Get(params, k) = PairValue(TokenAt(str, last))

HasSelector(q) == Handled(q) /\ Has(q.query, Str_tool) /\ Get(q.query, Str_tool) # <<>>

\* C5: for a non-empty selector, the tool name is the first token and the inline
\* parameters are exactly the pairs of the later tokens that hold '=' past their first
\* character, each split at its first '='.
C5_ParamsAreAllPairs ==
    \A r \in 1..MaxReq :
        HasSelector(req[r]) =>
            /\ req[r].toolName = TokenAt(Get(req[r].query, Str_tool), 1)
            /\ ParamsAreThePairs(req[r].params, Get(req[r].query, Str_tool), {})

\* C5, but for the pairs whose key is __proto__, which the code drops.
C5_ParamsArePairsButProto ==
    \A r \in 1..MaxReq :
        HasSelector(req[r]) =>
            /\ req[r].toolName = TokenAt(Get(req[r].query, Str_tool), 1)
            /\ ParamsAreThePairs(req[r].params, Get(req[r].query, Str_tool), {Str_proto})

\* the backends whose connect and listTools both succeeded
Discovered == {i \in 1..Len(settings) : backendReply[i].status = "listed"}

NamesListedBy(i) == {backendReply[i].tools[j].name : j \in 1..Len(backendReply[i].tools)}
ListersOf(name) == {i \in Discovered : name \in NamesListedBy(i)}

\* the last descriptor named `name` in the listing of backend i
LastListed(i, name) ==
    LET tools == backendReply[i].tools
        at == CHOOSE j \in 1..Len(tools) :
                 tools[j].name = name /\ \A k \in 1..Len(tools) : tools[k].name = name => k <= j
    IN  tools[at]

\* C6: the registry never holds two entries for one tool name, and after discovery a
\* name listed by discovered backends is bound to the last of them in configuration
\* order, with the descriptor that backend listed.
C6_OneEntryLastWins ==
    /\ UniqueKeys(availableTools)
    /\ pc = "serving" =>
         \A i \in Discovered : \A name \in NamesListedBy(i) :
            LET last == CHOOSE b \in ListersOf(name) : \A c \in ListersOf(name) : c <= b
            IN  /\ Has(availableTools, name)
                /\ Get(availableTools, name).serverName = settings[last]
                /\ Get(availableTools, name).tool = LastListed(last, name)

\* two backends listed x with different descriptors
C6_Witness ==
    /\ pc = "serving"
    /\ Cardinality(ListersOf(<<"x">>)) = 2
    /\ LastListed(1, <<"x">>) # LastListed(2, <<"x">>)
    /\ Get(availableTools, <<"x">>).serverName = settings[2]

\* C7: whatever backends fail to connect or to list their tools, discovery goes through
\* every configured backend, and the names /tools returns afterwards are exactly the
\* names listed by the backends whose connect and listTools both succeeded.
C7_FailuresIsolated ==
    /\ pc = "serving" =>
         \A i \in 1..Len(settings) :
            backendReply[i].status \in {"connectFailed", "listFailed", "listed"}
    /\ reply.endpoint = "/tools" =>
         {reply.body[i].name : i \in 1..Len(reply.body)} = UNION {NamesListedBy(i) : i \in Discovered}

\* the first backend failed to connect and the second one listed its tools
C7_Witness ==
    /\ reply.endpoint = "/tools"
    /\ Len(settings) = 2
    /\ backendReply[1].status = "connectFailed"
    /\ backendReply[2].status = "listed" /\ backendReply[2].tools # <<>>
    /\ reply.body # <<>>

\* C8: when the backend rejects the callTool request, the invocation ends with a failure
\* whose message carries the backend's message, and invokeTool logs the elapsed time.
C8_BackendFailureReported ==
    \A r \in 1..MaxReq :
        req[r].backendResult.settled = "rejected" =>
            /\ req[r].st = "done"
            /\ req[r].status = 500
            /\ req[r].response.success = FALSE
            /\ req[r].response.error = <<"Tool execution failed: ">> \o req[r].backendResult.value
            /\ \E i \in 1..Len(req[r].logged) :
                 /\ req[r].logged[i].level = "error"
                 /\ req[r].logged[i].ms \in 0..(now - req[r].startTime)

\* a rejected call that took one tick
C8_Witness ==
    \E r \in 1..MaxReq :
        /\ req[r].backendResult.settled = "rejected"
        /\ \E i \in 1..Len(req[r].logged) : req[r].logged[i].ms = 1

SelectorOf(q) == IF Has(q.query, Str_tool) THEN Get(q.query, Str_tool) ELSE Undefined

NoToolName(selector) == selector = Undefined \/ selector = <<>> \/ selector[1] = " "

\* C9: on both channels a request whose selector is absent, empty or starts with a
\* space is answered with the missing-tool-name error, and invokeTool is not entered:
\* no registry lookup, no callTool request.
C9_MissingToolName ==
    \A r \in 1..MaxReq :
        (Handled(req[r]) /\ NoToolName(SelectorOf(req[r]))) =>
            /\ req[r].st = "done"
            /\ req[r].status = 400
            /\ req[r].response.error = <<"Tool name is required as query parameter">>
            /\ ~req[r].invoked
            /\ req[r].calls = <<>>

\* a POST whose selector starts with a space and goes on with the registered tool x
C9_Witness ==
    \E r \in 1..MaxReq :
        /\ Handled(req[r]) /\ req[r].method = "POST"
        /\ SelectorOf(req[r]) = <<" ", "x">>
        /\ Has(availableTools, <<"x">>)

\* Reading a JSON object of string members back (no escapes in the strings).
NextQuote(str, i) ==
    CHOOSE j \in i..Len(str) : str[j] = "\"" /\ \A k \in i..(j - 1) : str[k] # "\""

RECURSIVE JsonEntriesFrom(_, _)
JsonEntriesFrom(str, i) ==
    IF str[i] # "\"" THEN <<>>
    ELSE LET keyEnd   == NextQuote(str, i + 1)
             valStart == keyEnd + 2
             valEnd   == NextQuote(str, valStart + 1)
             next     == IF str[valEnd + 1] = "," THEN valEnd + 2 ELSE valEnd + 1
         IN  <<Entry(SubSeq(str, i + 1, keyEnd - 1), SubSeq(str, valStart + 1, valEnd - 1))>>
             \o JsonEntriesFrom(str, next)

IsJsonObject(str) == Len(str) >= 2 /\ str[1] = "{" /\ str[Len(str)] = "}"
JsonEntries(str) == JsonEntriesFrom(str, 2)

\* the input names a tool's schema declares
DeclaredInputs(tool) ==
    IF tool.inputSchema.defined /\ tool.inputSchema.hasProperties
    THEN Keys(tool.inputSchema.properties)
    ELSE {}

\* the export record of a tool: GET and no body template without declared inputs,
\* else POST and a JSON object with one member per declared input, name -> {{name}}
ExportMatches(record, tool) ==
    IF DeclaredInputs(tool) = {}
    THEN record.method = "GET" /\ record.request_body = <<>>
    ELSE /\ record.method = "POST"
         /\ IsJsonObject(record.request_body)
         /\ LET members == JsonEntries(record.request_body)
            IN  /\ UniqueKeys(members)
                /\ Keys(members) = DeclaredInputs(tool)
                /\ \A k \in Keys(members) : Get(members, k) = Placeholder(k)

\* C10: the export holds one record per registered tool, keyed by the tool's name: GET
\* with an empty body template for a tool without declared inputs, POST with one
\* placeholder per declared input otherwise.
C10_ExportOfEveryTool ==
    reply.endpoint = "/serialize-tools" =>
        /\ Keys(reply.body) = Keys(availableTools)
        /\ \A name \in Keys(availableTools) :
             ExportMatches(Get(reply.body, name), Get(availableTools, name).tool)

\* C10, but for a tool named __proto__, which the export leaves out.
C10_ExportButProto ==
    reply.endpoint = "/serialize-tools" =>
        /\ UniqueKeys(reply.body)
        /\ Keys(reply.body) = Keys(availableTools) \ {Str_proto}
        /\ \A name \in Keys(reply.body) :
             ExportMatches(Get(reply.body, name), Get(availableTools, name).tool)

\* The hash of the claims: h <- h * 31 + charCode modulo 2^32, on the four bytes of h,
\* least significant first.
Times31Plus(b, c) ==
    LET t0 == b[1] * 31 + c
        t1 == b[2] * 31 + (t0 \div 256)
        t2 == b[3] * 31 + (t1 \div 256)
        t3 == b[4] * 31 + (t2 \div 256)
    IN  <<t0 % 256, t1 % 256, t2 % 256, t3 % 256>>

RECURSIVE Hash31(_, _, _)
Hash31(str, i, b) ==
    IF i > Len(str) THEN b ELSE Hash31(str, i + 1, Times31Plus(b, CharCode(str[i])))

\* the sign of the bytes read as a signed 32-bit integer, and the bytes of its magnitude
IsNegativeBytes(b) == b[4] >= 128

MagnitudeBytes(b) ==
    IF IsNegativeBytes(b)
    THEN LET t0 == (255 - b[1]) + 1
             t1 == (255 - b[2]) + (t0 \div 256)
             t2 == (255 - b[3]) + (t1 \div 256)
             t3 == (255 - b[4]) + (t2 \div 256)
         IN  <<t0 % 256, t1 % 256, t2 % 256, t3 % 256>>
    ELSE b

Hex2(n) == <<HexLower[(n \div 16) + 1], HexLower[(n % 16) + 1]>>

\* the eight hexadecimal digits of four bytes, most significant first
Hex8(b) == Hex2(b[4]) \o Hex2(b[3]) \o Hex2(b[2]) \o Hex2(b[1])

HashOfName(toolName) == Hash31(toolName \o Str_result, 1, <<0, 0, 0, 0>>)

\* the signed hash in hexadecimal (a negative one with its sign), padded with zeros to
\* twelve characters
HashRendered(toolName) ==
    LET b == HashOfName(toolName)
    IN  IF IsNegativeBytes(b)
        THEN PadStart(<<"-">> \o StripZeros(Hex8(MagnitudeBytes(b))), IdWidth)
        ELSE <<"0", "0", "0", "0">> \o Hex8(b)

\* the magnitude of the hash in hexadecimal, padded with zeros to twelve digits
MagnitudeRendered(toolName) ==
    <<"0", "0", "0", "0">> \o Hex8(MagnitudeBytes(HashOfName(toolName)))

ExportedId(i) == reply.body[i][2].outputs[1].id

\* C11 as stated: the export identifier of a tool is the signed 32-bit hash of
\* toolName + "_result", rendered in hexadecimal and padded with zeros: a function of
\* the tool's name alone.
C11_IdIsHashRendered ==
    reply.endpoint = "/serialize-tools" =>
        \A i \in 1..Len(reply.body) : ExportedId(i) = HashRendered(reply.body[i][1])

\* C11, amended: the export identifier of a tool is the absolute value of the signed
\* 32-bit hash of toolName + "_result", rendered in hexadecimal and padded with zeros to
\* twelve digits: a function of the tool's name alone, whatever backend listed the
\* tool, whatever its descriptor and whatever was served before.
C11_IdIsMagnitudeRendered ==
    reply.endpoint = "/serialize-tools" =>
        \A i \in 1..Len(reply.body) : ExportedId(i) = MagnitudeRendered(reply.body[i][1])

\* the export of the tool y, whose hash -2094269789 is negative, listed with an input
\* schema by the last backend: the identifier is 7cd4055d padded to twelve digits
C11_Witness ==
    /\ reply.endpoint = "/serialize-tools"
    /\ Len(reply.body) = 1
    /\ reply.body[1][1] = <<"y">>
    /\ Get(availableTools, <<"y">>).serverName = NumServers
    /\ Get(availableTools, <<"y">>).tool.inputSchema.defined
    /\ IsNegativeBytes(HashOfName(<<"y">>))
    /\ ExportedId(1) = <<"0", "0", "0", "0", "7", "c", "d", "4", "0", "5", "5", "d">>

\* the outcome of a finished invocation: a Success with a result and no error, or a
\* Failure with an error and no result
IsSuccess(q) ==
    /\ q.status = 200 /\ q.response.success
    /\ q.response.result # Undefined /\ q.response.error = Undefined

IsFailure(q) ==
    /\ q.status = 500 /\ ~q.response.success
    /\ q.response.result = Undefined /\ q.response.error # Undefined

OneOutcome(q) ==
    /\ Len(q.calls) <= 1
    /\ q.st # "done" => q.response = NoResponse
    /\ (q.st = "done" /\ q.invoked) =>
         /\ IsSuccess(q) # IsFailure(q)
         /\ IsSuccess(q) <=> q.backendResult.settled = "resolved"
         /\ q.calls = <<>> => q.backendResult.settled = "no"

\* a step sends no callTool request for an invocation whose call was already answered,
\* and changes nothing of an invocation that has produced its outcome
NoSecondOutcome(q, qNext) ==
    /\ q.backendResult.settled # "no" => qNext.calls = q.calls
    /\ q.st = "done" => qNext = q

\* C12: every invocation sends at most one callTool request and ends in exactly one
\* outcome, a Success or a Failure: a rejected call is not sent again, and a finished
\* invocation gets no second response.
C12_OneCallOneOutcome ==
    /\ [](\A r \in 1..MaxReq : OneOutcome(req[r]))
    /\ [][\A r \in 1..MaxReq : NoSecondOutcome(req[r], req'[r])]_vars

\* an invocation whose single call was rejected has ended in a Failure, and the clock
\* has moved on since
C12_Witness ==
    \E r \in 1..MaxReq :
        /\ req[r].backendResult.settled = "rejected"
        /\ Len(req[r].calls) = 1 /\ IsFailure(req[r])
        /\ now > req[r].startTime

\* C13: once discovery has completed and the server listens, no step changes the
\* registry or the clients: not an invocation on either channel, successful or failed,
\* not /tools, /serialize-tools or /health.
C13_RegistryReadOnly ==
    [][listening => (availableTools' = availableTools /\ mcpClients' = mcpClients)]_vars

\* after discovery filled the registry, an invocation was rejected by its backend and
\* the export was served
C13_Witness ==
    /\ listening /\ availableTools # <<>> /\ Len(mcpClients) = NumServers
    /\ reply.endpoint = "/serialize-tools"
    /\ \E r \in 1..MaxReq :
         /\ req[r].st = "done" /\ req[r].method = "POST"
         /\ req[r].backendResult.settled = "rejected"

\* what an invocation has done and answered is what its own tool name, its own
\* arguments and its own backend reply determine (the times aside)
OwnOutcome(q) ==
    q.invoked =>
        IF ~Has(availableTools, q.toolName)
        THEN q.calls = <<>> /\ q.response = ErrorResponse(NotFoundMessage(q.toolName))
        ELSE LET toolInfo == Get(availableTools, q.toolName)
             IN  /\ q.calls = <<[client |-> Client(toolInfo.serverName),
                                 request |-> [name |-> q.toolName, arguments |-> q.args]]>>
                 /\ CASE q.backendResult.settled = "no" ->
                            q.st = "awaiting" /\ q.response = NoResponse
                      [] q.backendResult.settled = "resolved" ->
                            /\ q.st = "done"
                            /\ [q.response EXCEPT !.executionTime = NoTime] =
                                 [error |-> Undefined, success |-> TRUE,
                                  result |-> q.backendResult.value, tool |-> q.toolName,
                                  server |-> toolInfo.serverName, executionTime |-> NoTime]
                      [] q.backendResult.settled = "rejected" ->
                            /\ q.st = "done"
                            /\ q.response = ErrorResponse(<<"Tool execution failed: ">>
                                                             \o q.backendResult.value)

\* the requests that name a tool and no inline parameters
PlainRequests ==
    {in \in SomeRequests : Has(in.query, Str_tool) /\ IndexOf(Get(in.query, Str_tool), " ") = -1}

\* each of the plain requests can be taken into the idle slot q, and the call of a
\* suspended invocation in the slot q can be answered
CanProceed(q) ==
    /\ req[q].st = "idle" =>
         \A in \in PlainRequests :
            ENABLED (GetTool(q, {in}) \/ PostTool(q, {in}) \/ Unauthorized(q, {in}))
    /\ req[q].st = "awaiting" => ENABLED CallToolReturns(q) /\ ENABLED CallToolFails(q)

\* C14: while an invocation is suspended in its backend call, every other request can be
\* dispatched and every other suspended invocation can complete; and what each
\* invocation sent and answered is determined by its own tool name, arguments and
\* backend reply, whatever was interleaved with it.
C14_Independent ==
    /\ \A r \in 1..MaxReq : OwnOutcome(req[r])
    /\ \A r, q \in 1..MaxReq : (r # q /\ req[r].st = "awaiting") => CanProceed(q)

\* an invocation of x is still suspended while an invocation of y, begun a tick later
\* on another backend with other arguments, has succeeded
C14_Witness ==
    \E r, q \in 1..MaxReq :
        /\ req[r].st = "awaiting" /\ req[r].toolName = <<"x">> /\ req[r].args # <<>>
        /\ req[q].st = "done" /\ req[q].toolName = <<"y">> /\ req[q].response.success
        /\ req[q].startTime > req[r].startTime
        /\ req[q].serverName # req[r].serverName

NotConnectedMessage(serverName) == <<"MCP server '", ToString(serverName), "' not connected">>

\* the backends the registry binds a tool to
BoundBackends == {availableTools[i][2].serverName : i \in 1..Len(availableTools)}

\* C15: in every state, during discovery and after, the backend of every registry entry
\* has its client in mcpClients, and no invocation ends with the 'MCP server not
\* connected' error; a backend that connected and whose listTools failed keeps its
\* client and has no registry entry.
C15_BoundBackendsConnected ==
    /\ BoundBackends \subseteq Keys(mcpClients)
    /\ UniqueKeys(mcpClients)
    /\ \A r \in 1..MaxReq :
         /\ \A serverName \in 0..NumServers :
              req[r].response.error # NotConnectedMessage(serverName)
         /\ (req[r].invoked /\ Has(availableTools, req[r].toolName)) => req[r].calls # <<>>
    /\ \A i \in 1..Len(settings) :
         /\ backendReply[i].status \in {"connected", "listed", "listFailed"} =>
              Has(mcpClients, settings[i])
         /\ backendReply[i].status \in {"pending", "connectFailed"} =>
              ~Has(mcpClients, settings[i])
         /\ backendReply[i].status # "listed" => settings[i] \notin BoundBackends

\* the first backend connected and failed to list its tools, the second one listed the
\* tool x, and an invocation of x reached its backend
C15_Witness ==
    /\ Len(settings) = 2
    /\ backendReply[1].status = "listFailed" /\ Has(mcpClients, settings[1])
    /\ BoundBackends = {settings[2]}
    /\ \E r \in 1..MaxReq :
         /\ req[r].invoked /\ req[r].toolName = <<"x">>
         /\ Len(req[r].calls) = 1 /\ req[r].calls[1].client = Client(settings[2])

\* discovery is over: every configured backend failed or listed, and the names a backend
\* listed are registered
DiscoveryFinished ==
    /\ pc = "serving" /\ idx = Len(settings) + 1
    /\ \A i \in 1..Len(settings) :
         /\ backendReply[i].status \in {"connectFailed", "listFailed", "listed"}
         /\ backendReply[i].status = "listed" => NamesListedBy(i) \subseteq Keys(availableTools)

\* a request was answered or is being handled
SomeRequestServed == reply.endpoint # "none" \/ \E r \in 1..MaxReq : req[r].st # "idle"

\* C16: the server listens, and requests are served, only once discovery is over for
\* every configured backend; no step changes the registry or the clients after the
\* server listens or a request was served.
C16_ListensAfterDiscovery ==
    /\ []((listening \/ SomeRequestServed) => DiscoveryFinished)
    /\ [][(availableTools' # availableTools \/ mcpClients' # mcpClients)
             => (~listening /\ ~SomeRequestServed)]_vars

\* of two configured backends the first failed to connect and the second listed its
\* tools; then /health and a request for a tool were served
C16_Witness ==
    /\ listening /\ Len(settings) = 2
    /\ backendReply[1].status = "connectFailed"
    /\ backendReply[2].status = "listed" /\ availableTools # <<>>
    /\ reply.endpoint = "/health"
    /\ \E r \in 1..MaxReq : req[r].st = "done" /\ req[r].status = 200

====
